---- MODULE Spec2Model ----
(***************************************************************************)
(* Credit-score bot of backend/src/server.js.  The file holds two          *)
(* revisions of the program: revision 1 (lines 1-590, per-chat collections *)
(* Users_<chatId>, sender 777000 barred) and revision 2 (lines 592-1118,   *)
(* one User model on a per-chat database selected by getChatDatabase).     *)
(*                                                                         *)
(* A handler is an async function: everything between two awaits runs      *)
(* without interleaving, so one action is "the awaited operation settles   *)
(* and the continuation runs up to the next await".                        *)
(*                                                                         *)
(* History variable (not program state): ledger, the sum of the deltas     *)
(* whose save succeeded, per (chatId, userId).                             *)
(***************************************************************************)
EXTENDS Integers, Sequences, FiniteSets, TLC

VARIABLES store, uniqueIdx, curDb, readyState, retry, hs, ledger, chains,
          poll

vars == <<store, uniqueIdx, curDb, readyState, retry, hs, ledger, chains,
          poll>>

\* what no event handler of revision 1 changes: the connection, its indexes
\* and its pending (re)connections, and the start-up of the bot's polling
conn == <<uniqueIdx, curDb, readyState, retry, chains, poll>>

(* ---------------------------- bounds ----------------------------------- *)
\* |creditScore| <= 20 * MaxVotes: the save step is disabled beyond it
MaxVotes == 2
\* at most MaxDocs documents under one (collection, chatId, telegramId)
MaxDocs == 2

\* at most MaxChains connection attempts in flight, and as many armed
\* retry timers
MaxChains == 2

\* the formatting functions are applied to the scores -MaxScore..MaxScore
\* and to the positions 1..MaxPosition
MaxScore == 120
MaxPosition == 5

(* ---------------------------- domains ---------------------------------- *)
Handlers == {1, 2}
Chats == {"c1", "c2"}
Users == {"777000", "u1", "u2", "bot"}
\* further members of a chat, who only register and are voted for
Crowd == {"m1", "m2", "m3", "m4", "m5", "m6", "m7", "m8", "m9"}
Members == Users \cup Crowd
\* databases / collections a document can live in
Locs == Chats \cup {"base"}
Keys == Locs \X Chats \X Members

\* msg.reply_to_message.from.is_bot / message.from.is_bot
IsBot(u) == u = "bot"

\* sticker file ids (one representative per delta, one unknown id) and
\* reaction emojis (thumbs-up, thumbs-down, any other)
SignalKeys == {"up", "down", "other"}

STICKER_CREDITS == [k \in {"up", "down"} |-> IF k = "up" THEN 20 ELSE -20]

\* STICKER_CREDITS[stickerId] is truthy
IsCreditSticker(k) == k \in DOMAIN STICKER_CREDITS /\ STICKER_CREDITS[k] # 0

Abs(n) == IF n < 0 THEN -n ELSE n
ScoreCap == 20 * MaxVotes

(* ---------------------------- messages --------------------------------- *)
TxtNoTarget == "Please reply to someone's message with the sticker to change their score!"
TxtSelfVote == "You can't change your own score!"
TxtBotTarget == "Bots can't receive credit scores!"
TxtStickerError == "Sorry, there was an error processing your sticker. Please try again later."
TxtReactionError == "Sorry, there was an error processing your reaction. Please try again later."
TxtStartError == "Sorry, there was an error processing your request. Please try again later."
TxtWelcome == "Welcome! You've been registered in the Fuel Credit Score system. Your initial score is 0."
TxtHeyFren == "Hey fren! Your current credit score is"
TxtChanged == "credit score changed from"
TxtNotRegistered == "You haven't registered yet. Use /start to register!"
TxtYourScore == "Your current credit score is:"
TxtScoreError == "Sorry, there was an error fetching your score. Please try again later."
TxtNoScores == "No credit scores recorded yet in this group."
TxtLeaderboard == "*Fuel Credit Score Leaderboard*"
TxtLeaderboardError == "Sorry, there was an error fetching the leaderboard. Please try again later."

Plain(t) == [text |-> t, old |-> 0, new |-> 0, emoji |-> "", comment |-> "",
             board |-> <<>>]
NoMsg == Plain("")

\* mutant: the warning band starts at -50
getScoreEmojiWarnsAtMinus50(score) ==
  IF score > 100 THEN "champion"
  ELSE IF score > 50 THEN "gold"
  ELSE IF score > 0 THEN "target"
  ELSE IF score <= -50 THEN "warning"
  ELSE "struggling"

getScoreEmoji(score) ==
  IF score > 100 THEN "champion"
  ELSE IF score > 50 THEN "gold"
  ELSE IF score > 0 THEN "target"
  ELSE IF score < -50 THEN "warning"
  ELSE "struggling"

getFunComment(score, position) ==
  IF position = 1 THEN "The most trusted citizen in the group!"
  ELSE IF position = 2 THEN "Almost worthy of the highest privileges!"
  ELSE IF position = 3 THEN "Still considered a model citizen!"
  ELSE IF score > 100 THEN "Your loyalty to the group is unquestionable!"
  ELSE IF score > 50 THEN "Your social standing is quite respectable!"
  ELSE IF score > 0 THEN "Your behavior is... acceptable."
  ELSE IF score > -50 THEN "Your social credit needs improvement..."
  ELSE "Your behavior is being closely monitored!"

\* the generic apology of the catch block of each handler
Apology(kind) ==
  IF kind = "sticker" THEN Plain(TxtStickerError)
  ELSE IF kind = "reaction" THEN Plain(TxtReactionError)
  ELSE IF kind = "score" THEN Plain(TxtScoreError)
  ELSE IF kind = "leaderboard" THEN Plain(TxtLeaderboardError)
  ELSE Plain(TxtStartError)

(* ---------------------------- the store -------------------------------- *)
\* a collection is a bag of documents; store[<<loc, chat, user>>] lists the
\* creditScore of the documents of collection loc carrying that chatId and
\* telegramId, in insertion order (position = _id)
NoUser == [found |-> FALSE, isNew |-> FALSE, id |-> 0, creditScore |-> 0]

\* Model.findOne({telegramId, chatId})
findOne(loc, chat, uid) ==
  IF Len(store[<<loc, chat, uid>>]) = 0 THEN NoUser
  ELSE [found |-> TRUE, isNew |-> FALSE, id |-> 1,
        creditScore |-> store[<<loc, chat, uid>>][1]]

\* mutant: a new record starts with a bonus
newUserWithBonus == [found |-> TRUE, isNew |-> TRUE, id |-> 0, creditScore |-> 20]

\* new Model({telegramId, chatId, username, creditScore: 0})
newUser == [found |-> TRUE, isNew |-> TRUE, id |-> 0, creditScore |-> 0]

\* mutant: the index is declared without {unique: true}
DuplicateKeyNotUnique(loc, chat, uid) == FALSE

\* userSchema.index({telegramId: 1, chatId: 1}, {unique: true}): an insert
\* of a second document with the same pair is rejected (E11000)
DuplicateKey(loc, chat, uid) ==
  uniqueIdx[loc] /\ Len(store[<<loc, chat, uid>>]) > 0

\* mutant: a document whose score returns to 0 is deleted
savedPrunesZero(loc, chat, uid, user, modified) ==
  IF user.isNew
    THEN [store EXCEPT ![<<loc, chat, uid>>] = Append(@, user.creditScore)]
  ELSE IF modified /\ user.id <= Len(store[<<loc, chat, uid>>])
    THEN IF user.creditScore = 0
           THEN [store EXCEPT ![<<loc, chat, uid>>] = <<>>]
         ELSE [store EXCEPT ![<<loc, chat, uid>>][user.id] = user.creditScore]
  ELSE store

\* document.save(): insertOne for a new document, otherwise
\* updateOne({_id}, {$set: {creditScore}}) when creditScore was modified
saved(loc, chat, uid, user, modified) ==
  IF user.isNew
    THEN [store EXCEPT ![<<loc, chat, uid>>] = Append(@, user.creditScore)]
  ELSE IF modified /\ user.id <= Len(store[<<loc, chat, uid>>])
    THEN [store EXCEPT ![<<loc, chat, uid>>][user.id] = user.creditScore]
  ELSE store

\* mutant: the filter is {$gte: score}
NumGreaterOrEqual(s, score) == Cardinality({i \in 1..Len(s) : s[i] >= score})

\* number of documents of s matching creditScore: {$gt: score}
NumGreater(s, score) == Cardinality({i \in 1..Len(s) : s[i] > score})

RECURSIVE SumOver(_, _, _, _)
SumOver(S, loc, chat, score) ==
  IF S = {} THEN 0
  ELSE LET u == CHOOSE x \in S : TRUE
       IN NumGreater(store[<<loc, chat, u>>], score)
          + SumOver(S \ {u}, loc, chat, score)

\* Model.countDocuments({chatId, creditScore: {$gt: score}})
countDocuments(loc, chat, score) == SumOver(Members, loc, chat, score)

\* getChatCollection(chatId): the model of collection Users_<chatId>
getChatCollection(chat) == chat

(* ---------------------------- the connection of revision 1 ------------- *)
\* chains.attempts counts the connectWithRetry() calls waiting on
\* mongoose.connect, chains.timers the armed setTimeout(connectWithRetry).
\* History fields: owed holds from the failure of an attempt to the start
\* of the next one, tick flips at every start of an attempt.
NoChains == [attempts |-> 0, timers |-> 0, owed |-> FALSE, tick |-> FALSE]

\* connectWithRetry() up to await mongoose.connect(uri, options)
connectWithRetry(c) ==
  [c EXCEPT !.attempts = @ + 1, !.tick = ~@, !.owed = FALSE]

\* mongoose.connect rejected (or the uri check threw)
Failed(c) == [c EXCEPT !.attempts = @ - 1, !.owed = TRUE]

\* mutant: the catch block only logs
RetryNever(c) == c

\* the catch block of connectWithRetry: setTimeout(connectWithRetry, 5000)
RetryLater(c) == [c EXCEPT !.timers = @ + 1]

\* an attempt settles.  It resolves, or, the connection being down, it
\* rejects; whether the connection then emits 'disconnected', whose
\* handler calls connectWithRetry() at once, depends on the mongoose build
AttemptSettles ==
  /\ chains.attempts > 0
  /\ \/ /\ readyState' = 1
        /\ chains' = [chains EXCEPT !.attempts = @ - 1]
     \/ /\ readyState = 0
        /\ chains.timers < MaxChains
        /\ readyState' = 0
        /\ \E emitted \in BOOLEAN :
             chains' = IF emitted
                         THEN RetryLater(connectWithRetry(Failed(chains)))
                       ELSE RetryLater(Failed(chains))
  /\ UNCHANGED <<store, uniqueIdx, curDb, retry, hs, ledger, poll>>

\* an armed timer fires after its 5000 ms: connectWithRetry()
TimerFires ==
  /\ chains.timers > 0
  /\ chains.attempts < MaxChains
  /\ chains' = connectWithRetry([chains EXCEPT !.timers = @ - 1])
  /\ UNCHANGED <<store, uniqueIdx, curDb, readyState, retry, hs, ledger,
                 poll>>

\* the connection is lost: mongoose.connection emits 'disconnected' and the
\* handler calls connectWithRetry()
ConnectionLost ==
  /\ readyState = 1
  /\ chains.attempts < MaxChains
  /\ readyState' = 0
  /\ chains' = connectWithRetry(chains)
  /\ UNCHANGED <<store, uniqueIdx, curDb, retry, hs, ledger, poll>>

(* ---------------------------- the start of the bot's polling ----------- *)
MAX_RETRIES == 5

\* what the catch block tells apart: err.message includes 'terminated by
\* other getUpdates request' ("conflict") or not ("other")
Errors == {"conflict", "other"}

\* poll.isPolling and poll.retryCount are the variables of the source;
\* poll.stopping and poll.starting count the executions of startPolling
\* waiting on bot.stopPolling() and on bot.startPolling(), poll.timers the
\* armed setTimeout(startPolling); poll.started: the bot polls for updates;
\* poll.signal: where the SIGINT/SIGTERM handler stands; poll.exit: the
\* process is alive or how it ended.
\* History fields: calls counts the executions that passed the isPolling
\* check, fails those that reached the catch block, err is the kind of the
\* error caught last ("none" after a successful start).
NotPolling ==
  [isPolling |-> FALSE, retryCount |-> 0, stopping |-> 0, starting |-> 0,
   timers |-> 0, started |-> FALSE, signal |-> "none", exit |-> "alive",
   calls |-> 0, fails |-> 0, err |-> "none"]

\* the bot of the other specifications: polling was started at the first try
Polling == [NotPolling EXCEPT !.isPolling = TRUE, !.started = TRUE,
                              !.calls = 1]

Alive == poll.exit = "alive"

\* startPolling() up to await bot.stopPolling()
startPolling(p) ==
  IF p.isPolling
    THEN p
  ELSE [p EXCEPT !.isPolling = TRUE, !.stopping = @ + 1, !.calls = @ + 1]

\* mutant: the retry test is retryCount <= MAX_RETRIES
CatchPollingOneMore(p, err) ==
  LET q == [p EXCEPT !.isPolling = FALSE, !.fails = @ + 1, !.err = err]
  IN  IF err = "conflict"
        THEN IF p.retryCount <= MAX_RETRIES
               THEN [q EXCEPT !.retryCount = @ + 1, !.timers = @ + 1]
             ELSE [q EXCEPT !.exit = "exit1"]
      ELSE q

\* the catch block of startPolling
CatchPolling(p, err) ==
  LET q == [p EXCEPT !.isPolling = FALSE, !.fails = @ + 1, !.err = err]
  IN  IF err = "conflict"
        THEN IF p.retryCount < MAX_RETRIES
               THEN [q EXCEPT !.retryCount = @ + 1, !.timers = @ + 1]
             ELSE [q EXCEPT !.exit = "exit1"]
      ELSE q

\* mutant: a successful start clears isPolling
StartedPollingClearsFlag(p) ==
  [p EXCEPT !.started = TRUE, !.retryCount = 0, !.err = "none",
            !.isPolling = FALSE]

\* after await bot.startPolling(): retryCount = 0
StartedPolling(p) ==
  [p EXCEPT !.started = TRUE, !.retryCount = 0, !.err = "none"]

\* await bot.stopPolling() of startPolling settles: the bot polls no
\* longer and bot.startPolling() is called, or the catch block runs
StopSettles ==
  /\ Alive
  /\ poll.stopping > 0
  /\ \/ poll' = [poll EXCEPT !.stopping = @ - 1, !.starting = @ + 1,
                             !.started = FALSE]
     \/ \E err \in Errors :
          poll' = CatchPolling([poll EXCEPT !.stopping = @ - 1], err)
  /\ UNCHANGED <<store, uniqueIdx, curDb, readyState, retry, hs, ledger,
                 chains>>

\* await bot.startPolling() settles
StartSettles ==
  /\ Alive
  /\ poll.starting > 0
  /\ \/ poll' = StartedPolling([poll EXCEPT !.starting = @ - 1])
     \/ \E err \in Errors :
          poll' = CatchPolling([poll EXCEPT !.starting = @ - 1], err)
  /\ UNCHANGED <<store, uniqueIdx, curDb, readyState, retry, hs, ledger,
                 chains>>

\* an armed timer fires after RETRY_DELAY: startPolling()
PollTimerFires ==
  /\ Alive
  /\ poll.timers > 0
  /\ poll' = startPolling([poll EXCEPT !.timers = @ - 1])
  /\ UNCHANGED <<store, uniqueIdx, curDb, readyState, retry, hs, ledger,
                 chains>>

\* SIGINT or SIGTERM is delivered: isPolling = false, up to
\* await bot.stopPolling()
Signal ==
  /\ Alive
  /\ poll.signal = "none"
  /\ poll' = [poll EXCEPT !.isPolling = FALSE, !.signal = "stopping"]
  /\ UNCHANGED <<store, uniqueIdx, curDb, readyState, retry, hs, ledger,
                 chains>>

\* await bot.stopPolling() of the signal handler settles: process.exit(0),
\* or the handler's promise rejects unhandled, which ends the process or
\* not depending on the Node.js version
SignalStopSettles ==
  /\ Alive
  /\ poll.signal = "stopping"
  /\ \/ poll' = [poll EXCEPT !.signal = "done", !.started = FALSE,
                             !.exit = "exit0"]
     \/ \E crash \in BOOLEAN :
          poll' = [poll EXCEPT !.signal = "rejected",
                               !.exit = IF crash THEN "crash" ELSE @]
  /\ UNCHANGED <<store, uniqueIdx, curDb, readyState, retry, hs, ledger,
                 chains>>

(* ---------------------------- the leaderboard query -------------------- *)
\* the order in which a collection scan meets the members' documents
MemberOrder == <<"777000", "u1", "u2", "m1", "m2", "m3", "m4", "m5", "m6",
                 "m7", "m8", "m9", "bot">>

\* the order among documents of equal creditScore is the storage's: the
\* scan runs forward or backward
ScanOrders == {"forward", "reverse"}

RECURSIVE DocsFrom(_, _, _)
DocsFrom(loc, chat, i) ==
  IF i > Len(MemberOrder) THEN <<>>
  ELSE LET u == MemberOrder[i]
           s == store[<<loc, chat, u>>]
       IN [j \in 1..Len(s) |-> [user |-> u, creditScore |-> s[j]]]
          \o DocsFrom(loc, chat, i + 1)

\* the documents of collection loc matching {chatId: chat}, in scan order
Docs(loc, chat) == DocsFrom(loc, chat, 1)

Reverse(s) == [i \in 1..Len(s) |-> s[Len(s) + 1 - i]]

\* mutant: the sort is ascending, sort({creditScore: 1})
InsertAsc(sorted, d) ==
  LET before == {i \in 1..Len(sorted) : sorted[i].creditScore <= d.creditScore}
      n == Cardinality(before)
  IN SubSeq(sorted, 1, n) \o <<d>> \o SubSeq(sorted, n + 1, Len(sorted))

\* d is placed after the documents holding at least its creditScore
InsertDesc(sorted, d) ==
  LET before == {i \in 1..Len(sorted) : sorted[i].creditScore >= d.creditScore}
      n == Cardinality(before)
  IN SubSeq(sorted, 1, n) \o <<d>> \o SubSeq(sorted, n + 1, Len(sorted))

\* .sort({creditScore: -1})
RECURSIVE SortDesc(_)
SortDesc(s) ==
  IF s = <<>> THEN <<>>
  ELSE InsertDesc(SortDesc(SubSeq(s, 1, Len(s) - 1)), s[Len(s)])

\* .limit(n)
Limit(s, n) == SubSeq(s, 1, IF Len(s) < n THEN Len(s) ELSE n)

\* ChatUsers.find({chatId}).sort({creditScore: -1}).limit(10)
TopUsers(loc, chat, order) ==
  Limit(SortDesc(IF order = "forward" THEN Docs(loc, chat)
                 ELSE Reverse(Docs(loc, chat))), 10)

\* `${index + 1}.` for the indexes a list of ten has
Ordinals == <<"1.", "2.", "3.", "4.", "5.", "6.", "7.", "8.", "9.", "10.">>

\* the medal of the forEach callback; index counts from 0
Medal(index) ==
  IF index = 0 THEN "first-place medal"
  ELSE IF index = 1 THEN "second-place medal"
  ELSE IF index = 2 THEN "third-place medal"
  ELSE Ordinals[index + 1]

\* the lines appended to leaderboardMessage
Lines(topUsers) ==
  [k \in 1..Len(topUsers) |->
     [medal |-> Medal(k - 1), user |-> topUsers[k].user,
      creditScore |-> topUsers[k].creditScore]]

(* ---------------------------- handlers --------------------------------- *)
NoEv == [kind |-> "none", chat |-> "c1", from |-> "u1", reply |-> "none",
         key |-> "other"]

Idle == [pc |-> "idle", ev |-> NoEv, coll |-> "users", db |-> "base",
         user |-> NoUser,
         oldScore |-> 0, position |-> 0, msg |-> NoMsg, sent |-> <<>>,
         denial |-> "None", saved |-> FALSE, rejected |-> FALSE]

Init ==
  /\ store = [k \in Keys |-> <<>>]
  /\ uniqueIdx = [l \in Locs |-> TRUE]
  /\ curDb = "base"
  /\ readyState = 1
  /\ retry = {}
  /\ hs = [h \in Handlers |-> Idle]
  /\ ledger = [k \in Chats \X Members |-> 0]
  /\ chains = NoChains
  /\ poll = Polling

\* a handler's await bot.sendMessage(chatId, text) is issued
Issue(st, m) == [st EXCEPT !.pc = "send", !.msg = m]

\* the locals declared inside the try block (user, oldScore, position) go
\* out of scope when control leaves it
Leave(st) == [st EXCEPT !.coll = Idle.coll, !.db = Idle.db,
                        !.user = NoUser, !.oldScore = 0, !.position = 0,
                        !.msg = NoMsg]

\* control reaches the catch block: await bot.sendMessage(apology)
Catch(st) == [Leave(st) EXCEPT !.pc = "apology", !.msg = Apology(st.ev.kind)]

\* the handler returns
Finish(st) == [Leave(st) EXCEPT !.pc = "done"]

(* eligibility predicates of the sticker handler *)
NoTarget(ev) == ev.reply = "none"
SenderExcluded(ev) == ev.from = "777000"

\* mutant: the self-vote check is missing
SelfVoteMissing(ev) == FALSE

SelfVote(ev) == ev.from = ev.reply

\* mutant: the bot-target check is missing
BotTargetMissing(ev) == FALSE

BotTarget(ev) == IsBot(ev.reply)

\* bot.on('sticker') of revision 1, up to its first await
StickerGuards(ev) ==
  IF ~IsCreditSticker(ev.key) THEN "NotCredit"
  ELSE IF NoTarget(ev) THEN "NoTarget"
  ELSE IF SenderExcluded(ev) THEN "SenderExcluded"
  ELSE IF SelfVote(ev) THEN "SelfVote"
  ELSE IF BotTarget(ev) THEN "BotTarget"
  ELSE "None"

\* mutant: the bot-target reply is a copy of the self-vote reply
DenialTextCopied(d) ==
  IF d = "NoTarget" THEN TxtNoTarget ELSE TxtSelfVote

DenialText(d) ==
  IF d = "NoTarget" THEN TxtNoTarget
  ELSE IF d = "SelfVote" THEN TxtSelfVote
  ELSE TxtBotTarget

\* mutant: the return after a denial reply is missing
AfterGuardsNoReturn(st, d) ==
  IF d \in {"NotCredit", "SenderExcluded", "NoMessage"}
    THEN Finish([st EXCEPT !.denial = d])
  ELSE IF d = "NoTarget"
    THEN [[st EXCEPT !.pc = "send", !.msg = Plain(TxtNoTarget)]
            EXCEPT !.denial = d]
  ELSE [st EXCEPT !.pc = "find", !.coll = getChatCollection(st.ev.chat),
                  !.db = curDb,
                  !.denial = IF d = "None" THEN st.denial ELSE d]

\* the guard chain has decided d: silent return, denial reply, or findOne
AfterGuards(st, d) ==
  IF d \in {"NotCredit", "SenderExcluded", "NoMessage"}
    THEN Finish([st EXCEPT !.denial = d])
  ELSE IF d \in {"NoTarget", "SelfVote", "BotTarget"}
    THEN [Issue(st, Plain(DenialText(d))) EXCEPT !.denial = d]
  ELSE [st EXCEPT !.pc = "find", !.coll = getChatCollection(st.ev.chat),
                  !.db = curDb]

OnSticker(h, ev) ==
  /\ hs[h].pc = "idle"
  /\ hs' = [hs EXCEPT ![h] =
       AfterGuards([Idle EXCEPT !.ev = ev], StickerGuards(ev))]
  /\ UNCHANGED <<store, conn, ledger>>

\* bot.onText(/\/start/) up to its first await (findOne)
OnStart(h, ev) ==
  /\ hs[h].pc = "idle"
  /\ hs' = [hs EXCEPT ![h] =
       [Idle EXCEPT !.ev = ev, !.pc = "find",
                    !.coll = getChatCollection(ev.chat), !.db = curDb]]
  /\ UNCHANGED <<store, conn, ledger>>

\* bot.onText(/\/score/) up to its first await (findOne)
OnScore(h, ev) ==
  /\ hs[h].pc = "idle"
  /\ hs' = [hs EXCEPT ![h] =
       [Idle EXCEPT !.ev = ev, !.pc = "find",
                    !.coll = getChatCollection(ev.chat), !.db = curDb]]
  /\ UNCHANGED <<store, conn, ledger>>

\* bot.onText(/\/leaderboard/) up to its first await (find)
OnLeaderboard(h, ev) ==
  /\ hs[h].pc = "idle"
  /\ hs' = [hs EXCEPT ![h] =
       [Idle EXCEPT !.ev = ev, !.pc = "query",
                    !.coll = getChatCollection(ev.chat), !.db = curDb]]
  /\ UNCHANGED <<store, conn, ledger>>

\* bot.on('message_reaction') up to its first await (getChat/getChatHistory)
OnReaction(h, ev) ==
  /\ hs[h].pc = "idle"
  /\ hs' = [hs EXCEPT ![h] = [Idle EXCEPT !.ev = ev, !.pc = "fetch"]]
  /\ UNCHANGED <<store, conn, ledger>>

\* guard chain of the reaction handler of revision 1; the code after it
\* names User, which revision 1 never declares: a ReferenceError
ReactionGuards(ev) ==
  IF SenderExcluded(ev) THEN "SenderExcluded"
  ELSE IF SelfVote(ev) THEN "SelfVote"
  ELSE IF BotTarget(ev) THEN "BotTarget"
  ELSE "ReferenceError"

AfterReactionGuards(st, d) ==
  IF d = "ReferenceError" THEN Catch(st) ELSE AfterGuards(st, d)

\* the fetch of the reacted-to message settles: it throws, yields no
\* message, or yields a message of some author
GetChatHistory(h, authors) ==
  /\ hs[h].pc = "fetch"
  /\ \/ hs' = [hs EXCEPT ![h] = Catch(@)]
     \/ hs' = [hs EXCEPT ![h] = AfterGuards(@, "NoMessage")]
     \/ \E author \in authors :
          LET st == [hs[h] EXCEPT !.ev.reply = author]
          IN hs' = [hs EXCEPT ![h] =
                      AfterReactionGuards(st, ReactionGuards(st.ev))]
  /\ UNCHANGED <<store, conn, ledger>>

(* ---------------------------- storage steps ---------------------------- *)
\* the user the handler looks up: the caller for /start and /score, else the
\* target
Subject(ev) == IF ev.kind \in {"start", "score"} THEN ev.from ELSE ev.reply

\* where the pending operation executes: collection Users_<chatId> of
\* revision 1, or collection users of the connected database (revision 2)
ExecLoc(st) == IF st.coll = "users" THEN curDb ELSE st.coll

\* an operation issued on a connected connection runs on that database; one
\* issued while disconnected is buffered until a connection is up
CanExec(st) == readyState = 1 /\ (st.db = "buffered" \/ st.db = curDb)

Bound(st) == [st EXCEPT !.db = IF readyState = 1 THEN curDb ELSE "buffered"]

\* the delta of a reaction: the emoji branch of the reaction handler
ReactionDelta(key) ==
  IF key = "up" THEN 20 ELSE IF key = "down" THEN -20 ELSE 0

EventDelta(ev) ==
  IF ev.kind = "sticker" THEN STICKER_CREDITS[ev.key] ELSE ReactionDelta(ev.key)

\* mutant: the score is clamped at zero
AppliedClamped(score, delta) == IF score + delta < 0 THEN 0 ELSE score + delta

\* user.creditScore += delta
Applied(score, delta) == score + delta

\* mutant: /score registers a caller who has no record
AfterFindScoreRegisters(st, u) ==
  IF ~u.found THEN Bound([st EXCEPT !.user = newUser, !.pc = "save"])
  ELSE Issue([st EXCEPT !.user = u],
             [Plain(TxtYourScore) EXCEPT !.new = u.creditScore,
                                         !.emoji = getScoreEmoji(u.creditScore)])

\* continuation of /score after findOne resolved with u
AfterFindScore(st, u) ==
  IF ~u.found THEN Issue(st, Plain(TxtNotRegistered))
  ELSE Issue([st EXCEPT !.user = u],
             [Plain(TxtYourScore) EXCEPT !.new = u.creditScore,
                                         !.emoji = getScoreEmoji(u.creditScore)])

\* continuation after findOne resolved with u
AfterFind(st, u) ==
  IF st.ev.kind = "score" THEN AfterFindScore(st, u)
  ELSE IF st.ev.kind = "start"
    THEN IF ~u.found
           THEN Bound([st EXCEPT !.user = newUser, !.pc = "save"])
           ELSE Issue([st EXCEPT !.user = u],
                      [Plain(TxtHeyFren) EXCEPT !.new = u.creditScore])
    ELSE LET usr == IF u.found THEN u ELSE newUser
         IN Bound([st EXCEPT
                     !.oldScore = usr.creditScore,
                     !.user = [usr EXCEPT !.creditScore =
                                 Applied(@, EventDelta(st.ev))],
                     !.pc = "save"])

DbFindOne(h) ==
  /\ hs[h].pc = "find"
  /\ \/ hs' = [hs EXCEPT ![h] = Catch(@)]
     \/ /\ CanExec(hs[h])
        /\ hs' = [hs EXCEPT ![h] =
             AfterFind(@, findOne(ExecLoc(hs[h]), hs[h].ev.chat,
                                  Subject(hs[h].ev)))]
  /\ UNCHANGED <<store, conn, ledger>>

\* mutant: the check for an empty result is missing
AfterFindAllNoEmptyCheck(st, topUsers) ==
  Issue(st, [Plain(TxtLeaderboard) EXCEPT !.board = Lines(topUsers)])

\* continuation of /leaderboard after find resolved with topUsers
AfterFindAll(st, topUsers) ==
  IF Len(topUsers) = 0 THEN Issue(st, Plain(TxtNoScores))
  ELSE Issue(st, [Plain(TxtLeaderboard) EXCEPT !.board = Lines(topUsers)])

\* the find of /leaderboard settles
DbFind(h) ==
  /\ hs[h].pc = "query"
  /\ \/ hs' = [hs EXCEPT ![h] = Catch(@)]
     \/ /\ CanExec(hs[h])
        /\ \E order \in ScanOrders :
             hs' = [hs EXCEPT ![h] =
               AfterFindAll(@, TopUsers(ExecLoc(hs[h]), hs[h].ev.chat, order))]
  /\ UNCHANGED <<store, conn, ledger>>

Changed(st, comment) ==
  [text |-> TxtChanged, old |-> st.oldScore, new |-> st.user.creditScore,
   emoji |-> getScoreEmoji(st.user.creditScore), comment |-> comment,
   board |-> <<>>]

\* continuation after save resolved
AfterSave(st) ==
  IF st.ev.kind = "start" THEN Issue(st, Plain(TxtWelcome))
  ELSE IF st.ev.kind = "sticker" THEN Bound([st EXCEPT !.pc = "count"])
  ELSE Issue(st, Changed(st, ""))

DbSave(h) ==
  LET st == hs[h]
      loc == ExecLoc(st)
      uid == Subject(st.ev)
      delta == st.user.creditScore - st.oldScore
  IN /\ st.pc = "save"
     /\ Abs(st.user.creditScore) <= ScoreCap
     /\ Abs(ledger[<<st.ev.chat, uid>>] + delta) <= ScoreCap
     /\ \/ /\ hs' = [hs EXCEPT ![h] = Catch(@)]
           /\ UNCHANGED <<store, ledger>>
        \/ /\ CanExec(st)
           /\ st.user.isNew /\ DuplicateKey(loc, st.ev.chat, uid)
           /\ hs' = [hs EXCEPT ![h] = Catch(@)]
           /\ UNCHANGED <<store, ledger>>
        \/ /\ CanExec(st)
           /\ ~(st.user.isNew /\ DuplicateKey(loc, st.ev.chat, uid))
           /\ st.user.isNew => Len(store[<<loc, st.ev.chat, uid>>]) < MaxDocs
           /\ store' = saved(loc, st.ev.chat, uid, st.user, delta # 0)
           /\ ledger' = [ledger EXCEPT ![<<st.ev.chat, uid>>] = @ + delta]
           /\ hs' = [hs EXCEPT ![h] = AfterSave([@ EXCEPT !.saved = TRUE])]
     /\ UNCHANGED conn

DbCount(h) ==
  LET st == hs[h]
  IN /\ st.pc = "count"
     /\ \/ hs' = [hs EXCEPT ![h] = Catch(@)]
        \/ /\ CanExec(st)
           /\ LET position == countDocuments(ExecLoc(st), st.ev.chat,
                                             st.user.creditScore) + 1
              IN hs' = [hs EXCEPT ![h] =
                   Issue([@ EXCEPT !.position = position],
                         Changed(st, getFunComment(st.user.creditScore,
                                                   position)))]
     /\ UNCHANGED <<store, conn, ledger>>

(* ---------------------------- outbound sends --------------------------- *)
Sent(m, ok) == [text |-> m.text, old |-> m.old, new |-> m.new,
                emoji |-> m.emoji, comment |-> m.comment, board |-> m.board,
                ok |-> ok]

\* mutant: a failed send leaves the handler without reaching the catch block
SendMessageNoCatch(h) ==
  /\ hs[h].pc = "send"
  /\ \E ok \in BOOLEAN :
       hs' = [hs EXCEPT ![h] =
         Finish([@ EXCEPT !.sent = Append(@, Sent(hs[h].msg, ok))])]
  /\ UNCHANGED <<store, conn, ledger>>

\* await bot.sendMessage(...) inside the try block settles
SendMessage(h) ==
  /\ hs[h].pc = "send"
  /\ \E ok \in BOOLEAN :
       hs' = [hs EXCEPT ![h] =
         IF ok THEN Finish([@ EXCEPT !.sent = Append(@, Sent(hs[h].msg, TRUE))])
         ELSE Catch([@ EXCEPT !.sent = Append(@, Sent(hs[h].msg, FALSE))])]
  /\ UNCHANGED <<store, conn, ledger>>

\* await bot.sendMessage(apology) inside the catch block settles; when it
\* throws, the handler's promise is rejected
SendApology(h) ==
  /\ hs[h].pc = "apology"
  /\ \E ok \in BOOLEAN :
       hs' = [hs EXCEPT ![h] =
         Finish([@ EXCEPT !.rejected = ~ok,
                          !.sent = Append(@, Sent(hs[h].msg, ok))])]
  /\ UNCHANGED <<store, conn, ledger>>

\* the handler has returned; the slot takes the next event
Return(h) ==
  /\ hs[h].pc = "done"
  /\ hs' = [hs EXCEPT ![h] = Idle]
  /\ UNCHANGED <<store, conn, ledger>>

(* ---------------------------- events ----------------------------------- *)
StickerEvents(chats, senders, targets, keys) ==
  [kind : {"sticker"}, chat : chats, from : senders, reply : targets,
   key : keys]
StartEvents(chats, senders) ==
  [kind : {"start"}, chat : chats, from : senders, reply : {"none"},
   key : {"other"}]
ScoreEvents(chats, senders) ==
  [kind : {"score"}, chat : chats, from : senders, reply : {"none"},
   key : {"other"}]
LeaderboardEvents(chats, senders) ==
  [kind : {"leaderboard"}, chat : chats, from : senders, reply : {"none"},
   key : {"other"}]
ReactionEvents(chats, senders, keys) ==
  [kind : {"reaction"}, chat : chats, from : senders, reply : {"none"},
   key : keys]

\* no handler is between its first await and its return
Quiet == \A h \in Handlers : hs[h].pc = "idle"

\* an event is dispatched to the first free handler slot
Free(h) == hs[h].pc = "idle" /\ \A g \in Handlers : g < h => hs[g].pc # "idle"

(* revision 1, one event at a time *)
DeliverSticker ==
  \E h \in Handlers :
    \E ev \in StickerEvents({"c1"}, Users, Users \cup {"none"}, SignalKeys) :
      Quiet /\ Free(h) /\ OnSticker(h, ev)
DeliverStart ==
  \E h \in Handlers : \E ev \in StartEvents({"c1"}, {"u1", "u2"}) :
    Quiet /\ Free(h) /\ OnStart(h, ev)
DeliverReaction ==
  \E h \in Handlers : \E ev \in ReactionEvents({"c1"}, Users, SignalKeys) :
    Quiet /\ Free(h) /\ OnReaction(h, ev)
DeliverScore ==
  \E h \in Handlers : \E ev \in ScoreEvents({"c1"}, {"u1", "u2"}) :
    Quiet /\ Free(h) /\ OnScore(h, ev)
DeliverLeaderboard ==
  \E h \in Handlers : \E ev \in LeaderboardEvents({"c1"}, {"u1"}) :
    Quiet /\ Free(h) /\ OnLeaderboard(h, ev)
Fetched == \E h \in Handlers : GetChatHistory(h, Users)
Listed == \E h \in Handlers : DbFind(h)
Found == \E h \in Handlers : DbFindOne(h)
Saved == \E h \in Handlers : DbSave(h)
Counted == \E h \in Handlers : DbCount(h)
Replied == \E h \in Handlers : SendMessage(h)
Apologised == \E h \in Handlers : SendApology(h)
Returned == \E h \in Handlers : Return(h)

Next ==
  \/ DeliverSticker
  \/ DeliverStart
  \/ DeliverReaction
  \/ DeliverScore
  \/ DeliverLeaderboard
  \/ Fetched
  \/ Found
  \/ Listed
  \/ Saved
  \/ Counted
  \/ Replied
  \/ Apologised
  \/ Returned

Spec == Init /\ [][Next]_vars

(* revision 1, handlers of several events overlapping *)
OverlapSticker ==
  \E h \in Handlers :
    \E ev \in StickerEvents({"c1"}, {"u1"}, {"u2"}, {"up", "down"}) :
      Free(h) /\ OnSticker(h, ev)
OverlapStart ==
  \E h \in Handlers : \E ev \in StartEvents({"c1"}, {"u2"}) :
    Free(h) /\ OnStart(h, ev)
OverlapReaction ==
  \E h \in Handlers : \E ev \in ReactionEvents({"c1"}, {"u1"}, {"up"}) :
    Free(h) /\ OnReaction(h, ev)

NextConc ==
  \/ OverlapSticker
  \/ OverlapStart
  \/ OverlapReaction
  \/ Fetched
  \/ Found
  \/ Saved
  \/ Counted
  \/ Replied
  \/ Apologised
  \/ Returned

SpecConc == Init /\ [][NextConc]_vars

(* revision 1, /leaderboard over the stores of a chat of up to twelve
   registered members *)
Position(u) == CHOOSE i \in 1..Len(MemberOrder) : MemberOrder[i] = u

\* the first n members of the scan order each hold 0 (registered by
\* /start) or 20 (voted up once)
InitBoard ==
  /\ \E n \in 0..(Len(MemberOrder) - 1) :
       \E f \in [1..n -> {0, 20}] :
         /\ store = [k \in Keys |->
                       IF k[1] = "c1" /\ k[2] = "c1" /\ Position(k[3]) <= n
                         THEN <<f[Position(k[3])]>> ELSE <<>>]
         /\ ledger = [k \in Chats \X Members |->
                       IF k[1] = "c1" /\ Position(k[2]) <= n
                         THEN f[Position(k[2])] ELSE 0]
  /\ uniqueIdx = [l \in Locs |-> TRUE]
  /\ curDb = "base"
  /\ readyState = 1
  /\ retry = {}
  /\ hs = [h \in Handlers |-> Idle]
  /\ chains = NoChains
  /\ poll = Polling

NextBoard ==
  \/ DeliverLeaderboard
  \/ Listed
  \/ Replied
  \/ Apologised
  \/ Returned

SpecBoard == InitBoard /\ [][NextBoard]_vars

(* revision 1 from its start: the connection comes and goes while /score
   commands are handled *)
\* after construction: the initial connectWithRetry() waits on its connect
InitConn ==
  /\ store = [k \in Keys |-> <<>>]
  /\ uniqueIdx = [l \in Locs |-> TRUE]
  /\ curDb = "base"
  /\ readyState = 0
  /\ retry = {}
  /\ hs = [h \in Handlers |-> Idle]
  /\ ledger = [k \in Chats \X Members |-> 0]
  /\ chains = connectWithRetry(NoChains)
  /\ poll = Polling

NextConn ==
  \/ AttemptSettles
  \/ TimerFires
  \/ ConnectionLost
  \/ DeliverScore
  \/ Found
  \/ Replied
  \/ Apologised
  \/ Returned

\* a pending mongoose.connect settles (serverSelectionTimeoutMS) and an
\* armed timer fires
SpecConn ==
  /\ InitConn
  /\ [][NextConn]_vars
  /\ WF_vars(AttemptSettles)
  /\ WF_vars(TimerFires)

(* revision 1 from its start: polling is started, with retries, and /score
   commands are handled once the bot polls *)
\* after construction: the call startPolling() of line 167 waits on
\* bot.stopPolling()
InitPoll ==
  /\ store = [k \in Keys |-> <<>>]
  /\ uniqueIdx = [l \in Locs |-> TRUE]
  /\ curDb = "base"
  /\ readyState = 1
  /\ retry = {}
  /\ hs = [h \in Handlers |-> Idle]
  /\ ledger = [k \in Chats \X Members |-> 0]
  /\ chains = NoChains
  /\ poll = startPolling(NotPolling)

\* updates reach the handlers while the bot polls; nothing runs once the
\* process has exited
PollDeliverScore == Alive /\ poll.started /\ DeliverScore
PollFound == Alive /\ Found
PollReplied == Alive /\ Replied
PollApologised == Alive /\ Apologised
PollReturned == Alive /\ Returned

NextPoll ==
  \/ StopSettles
  \/ StartSettles
  \/ PollTimerFires
  \/ Signal
  \/ SignalStopSettles
  \/ PollDeliverScore
  \/ PollFound
  \/ PollReplied
  \/ PollApologised
  \/ PollReturned

\* the awaited calls of startPolling settle and an armed timer fires
SpecPoll ==
  /\ InitPoll
  /\ [][NextPoll]_vars
  /\ WF_vars(StopSettles)
  /\ WF_vars(StartSettles)
  /\ WF_vars(PollTimerFires)

(* revision 1, sticker events one at a time, every awaited call settling *)
\* a sticker event is dispatched; the votes offered keep the target's score
\* within ScoreCap
StickerArrives ==
  \E h \in Handlers :
    \E ev \in StickerEvents({"c1"}, Users, Users \cup {"none"}, SignalKeys) :
      /\ Quiet /\ Free(h)
      /\ (IsCreditSticker(ev.key) /\ ev.reply # "none") =>
           Abs(ledger[<<ev.chat, ev.reply>>] + EventDelta(ev)) <= ScoreCap
      /\ OnSticker(h, ev)

NextSticker ==
  \/ StickerArrives
  \/ Found
  \/ Saved
  \/ Counted
  \/ Replied
  \/ Apologised
  \/ Returned

\* the storage calls and the sends a handler awaits settle (they resolve
\* or reject), and the handler then runs on
SpecSticker ==
  /\ Init
  /\ [][NextSticker]_vars
  /\ \A h \in Handlers :
       /\ WF_vars(DbFindOne(h))
       /\ WF_vars(DbSave(h))
       /\ WF_vars(DbCount(h))
       /\ WF_vars(SendMessage(h))
       /\ WF_vars(SendApology(h))
       /\ WF_vars(Return(h))

(* the formatting functions over a range of scores and positions *)
\* the sticker handler holds a new score and a position and formats its
\* confirmation
InitFormat ==
  /\ store = [k \in Keys |-> <<>>]
  /\ uniqueIdx = [l \in Locs |-> TRUE]
  /\ curDb = "base"
  /\ readyState = 1
  /\ retry = {}
  /\ \E score \in (-MaxScore)..MaxScore : \E position \in 1..MaxPosition :
       hs = [h \in Handlers |->
               IF h = 1
                 THEN [Idle EXCEPT !.pc = "format",
                                   !.user = [newUser EXCEPT !.creditScore = score],
                                   !.position = position]
               ELSE Idle]
  /\ ledger = [k \in Chats \X Members |-> 0]
  /\ chains = NoChains
  /\ poll = Polling

\* const comment = getFunComment(...); const emoji = getScoreEmoji(...)
Format(h) ==
  /\ hs[h].pc = "format"
  /\ hs' = [hs EXCEPT ![h] =
       [@ EXCEPT !.pc = "formatted",
                 !.msg = Changed(hs[h], getFunComment(hs[h].user.creditScore,
                                                      hs[h].position))]]
  /\ UNCHANGED <<store, conn, ledger>>

Formatted == \E h \in Handlers : Format(h)

NextFormat == Formatted

SpecFormat == InitFormat /\ [][NextFormat]_vars

(* revision 1, two chats, overlapping handlers of different records *)
\* the record an event is about
KeyOf(ev) == <<ev.chat, Subject(ev)>>

\* no handler in flight is about the record of ev
KeyFree(ev) ==
  \A g \in Handlers :
    hs[g].pc \in {"idle", "done"} \/ KeyOf(hs[g].ev) # KeyOf(ev)

KeysSticker ==
  \E h \in Handlers :
    \E ev \in StickerEvents(Chats, {"u1"}, {"u2"}, {"up", "down"}) :
      Free(h) /\ KeyFree(ev) /\ OnSticker(h, ev)
KeysStart ==
  \E h \in Handlers : \E ev \in StartEvents({"c1"}, {"u1"}) :
    Free(h) /\ KeyFree(ev) /\ OnStart(h, ev)

NextKeys ==
  \/ KeysSticker
  \/ KeysStart
  \/ Found
  \/ Saved
  \/ Counted
  \/ Replied
  \/ Apologised
  \/ Returned

SpecKeys == Init /\ [][NextKeys]_vars

(* ---------------------------- revision 2 ------------------------------- *)
\* bot.on('sticker') of revision 2, up to its first await: no check of the
\* sender id, and the sticker is classified after the guards
StickerGuards2(ev) ==
  IF NoTarget(ev) THEN "NoTarget"
  ELSE IF SelfVote(ev) THEN "SelfVote"
  ELSE IF BotTarget(ev) THEN "BotTarget"
  ELSE IF ~IsCreditSticker(ev.key) THEN "NotCredit"
  ELSE "None"

\* getChatDatabase(chatId) up to its first await: mongoose.disconnect() when
\* the connection is up, else mongoose.connect(chat uri)
getChatDatabase(st) ==
  [st EXCEPT !.pc = IF readyState = 1 THEN "disconnect" ELSE "connect",
             !.coll = "users"]

AfterGuards2(st, d) ==
  IF d = "None" THEN getChatDatabase(st) ELSE AfterGuards(st, d)

OnSticker2(h, ev) ==
  /\ hs[h].pc = "idle"
  /\ hs' = [hs EXCEPT ![h] =
       AfterGuards2([Idle EXCEPT !.ev = ev], StickerGuards2(ev))]
  /\ UNCHANGED <<store, conn, ledger>>

OnStart2(h, ev) ==
  /\ hs[h].pc = "idle"
  /\ hs' = [hs EXCEPT ![h] = getChatDatabase([Idle EXCEPT !.ev = ev])]
  /\ UNCHANGED <<store, conn, ledger>>

\* guard chain of the reaction handler of revision 2: no check of the
\* sender id; User is the model declared at line 684
ReactionGuards2(ev) ==
  IF SelfVote(ev) THEN "SelfVote"
  ELSE IF BotTarget(ev) THEN "BotTarget"
  ELSE "None"

AfterReactionGuards2(st, d) ==
  IF d = "None" THEN Bound([st EXCEPT !.pc = "find", !.coll = "users"])
  ELSE AfterGuards(st, d)

GetChatHistory2(h, authors) ==
  /\ hs[h].pc = "fetch"
  /\ \/ hs' = [hs EXCEPT ![h] = Catch(@)]
     \/ hs' = [hs EXCEPT ![h] = AfterGuards(@, "NoMessage")]
     \/ \E author \in authors :
          LET st == [hs[h] EXCEPT !.ev.reply = author]
          IN hs' = [hs EXCEPT ![h] =
                      AfterReactionGuards2(st, ReactionGuards2(st.ev))]
  /\ UNCHANGED <<store, conn, ledger>>

\* await mongoose.disconnect() settles; the 'disconnected' event runs
\* connectWithRetry() for the base uri; then connectWithRetry(chatId) starts
Disconnect(h) ==
  /\ hs[h].pc = "disconnect"
  /\ \/ /\ hs' = [hs EXCEPT ![h] = Catch(@)]
        /\ UNCHANGED conn
     \/ /\ hs' = [hs EXCEPT ![h].pc = "connect"]
        /\ readyState' = 0
        /\ retry' = IF readyState = 1 THEN retry \cup {"base"} ELSE retry
        /\ UNCHANGED <<uniqueIdx, curDb, chains, poll>>
  /\ UNCHANGED <<store, ledger>>

\* await mongoose.connect(chat uri) inside connectWithRetry(chatId) settles;
\* a failure is caught there and a retry is scheduled, and getChatDatabase
\* goes on to dropIndexes either way
Connect(h) ==
  /\ hs[h].pc = "connect"
  /\ \/ /\ readyState = 0 \/ curDb = hs[h].ev.chat
        /\ curDb' = hs[h].ev.chat
        /\ readyState' = 1
        /\ hs' = [hs EXCEPT ![h] = [@ EXCEPT !.pc = "drop", !.db = hs[h].ev.chat]]
        /\ UNCHANGED <<uniqueIdx, retry, chains, poll>>
     \/ /\ retry' = retry \cup {hs[h].ev.chat}
        /\ hs' = [hs EXCEPT ![h] = Bound([@ EXCEPT !.pc = "drop"])]
        /\ UNCHANGED <<uniqueIdx, curDb, readyState, chains, poll>>
  /\ UNCHANGED <<store, ledger>>

\* a pending connectWithRetry(t) connects; while it fails it re-arms itself
Reconnect(t) ==
  /\ t \in retry
  /\ readyState = 0 \/ curDb = t
  /\ curDb' = t
  /\ readyState' = 1
  /\ retry' = retry \ {t}
  /\ UNCHANGED <<store, uniqueIdx, hs, ledger, chains, poll>>

\* await User.collection.dropIndexes().catch(() => {}) settles
DropIndexes(h) ==
  /\ hs[h].pc = "drop"
  /\ \/ UNCHANGED uniqueIdx
     \/ /\ CanExec(hs[h])
        /\ uniqueIdx' = [uniqueIdx EXCEPT ![curDb] = FALSE]
  /\ hs' = [hs EXCEPT ![h] = Bound([@ EXCEPT !.pc = "index"])]
  /\ UNCHANGED <<store, curDb, readyState, retry, ledger, chains, poll>>

\* a unique index cannot be built over documents that share the key
HasDuplicates(loc) ==
  \E c \in Chats, u \in Members : Len(store[<<loc, c, u>>]) > 1

\* await User.collection.createIndex({telegramId, chatId}, {unique}) settles
CreateIndex(h) ==
  /\ hs[h].pc = "index"
  /\ \/ /\ hs' = [hs EXCEPT ![h] = Catch(@)]
        /\ UNCHANGED uniqueIdx
     \/ /\ CanExec(hs[h]) /\ HasDuplicates(curDb)
        /\ hs' = [hs EXCEPT ![h] = Catch(@)]
        /\ UNCHANGED uniqueIdx
     \/ /\ CanExec(hs[h]) /\ ~HasDuplicates(curDb)
        /\ uniqueIdx' = [uniqueIdx EXCEPT ![curDb] = TRUE]
        /\ hs' = [hs EXCEPT ![h] = Bound([@ EXCEPT !.pc = "find"])]
  /\ UNCHANGED <<store, curDb, readyState, retry, ledger, chains, poll>>

\* revision 2 after construction: the User model's index exists on the
\* base database only
Init2 ==
  /\ store = [k \in Keys |-> <<>>]
  /\ uniqueIdx = [l \in Locs |-> l = "base"]
  /\ curDb = "base"
  /\ readyState = 1
  /\ retry = {}
  /\ hs = [h \in Handlers |-> Idle]
  /\ ledger = [k \in Chats \X Members |-> 0]
  /\ chains = NoChains
  /\ poll = Polling

DeliverSticker2 ==
  \E h \in Handlers :
    \E ev \in StickerEvents({"c1"}, {"777000", "u2"},
                             {"none", "777000", "u1", "bot"},
                             {"up", "other"}) :
      Quiet /\ Free(h) /\ OnSticker2(h, ev)
DeliverStart2 ==
  \E h \in Handlers : \E ev \in StartEvents({"c1"}, {"u1"}) :
    Quiet /\ Free(h) /\ OnStart2(h, ev)
DeliverReaction2 ==
  \E h \in Handlers :
    \E ev \in ReactionEvents({"c1"}, {"777000", "u2"}, {"up", "other"}) :
      Quiet /\ Free(h) /\ OnReaction(h, ev)
Fetched2 == \E h \in Handlers : GetChatHistory2(h, {"777000", "u1", "bot"})
Disconnected == \E h \in Handlers : Disconnect(h)
Connected == \E h \in Handlers : Connect(h)
Reconnected == \E t \in Locs : Reconnect(t)
IndexesDropped == \E h \in Handlers : DropIndexes(h)
IndexCreated == \E h \in Handlers : CreateIndex(h)

Next2 ==
  \/ DeliverSticker2
  \/ DeliverStart2
  \/ DeliverReaction2
  \/ Fetched2
  \/ Disconnected
  \/ Connected
  \/ Reconnected
  \/ IndexesDropped
  \/ IndexCreated
  \/ Found
  \/ Saved
  \/ Counted
  \/ Replied
  \/ Apologised
  \/ Returned

SpecRev2 == Init2 /\ [][Next2]_vars

(* ---------------------------- properties ------------------------------- *)
Denials == {"NoTarget", "SenderExcluded", "SelfVote", "BotTarget"}
Signals == {"sticker", "reaction"}
StoragePcs == {"find", "save", "count"}

\* number of documents of the pair (chat, uid), over all collections
NumRecords(chat, uid) ==
  Cardinality({<<l, i>> \in Locs \X (1..MaxDocs + 1) :
                 i <= Len(store[<<l, chat, uid>>])})

Exists(chat, uid) == Len(store[<<chat, chat, uid>>]) > 0
ScoreOf(chat, uid) == store[<<chat, chat, uid>>][1]
ScoreOr0(st, chat, uid) ==
  IF Len(st[<<chat, chat, uid>>]) = 0 THEN 0 ELSE st[<<chat, chat, uid>>][1]

\* C1: when two accepted sticker signals on the same (chatId, userId)
\* record have both completed, the stored score is the score before them
\* plus both deltas, i.e. the sum of all deltas applied to the record
C1_NoLostUpdate ==
  \A h1 \in Handlers, h2 \in Handlers :
    ( /\ h1 # h2
      /\ hs[h1].pc = "done" /\ hs[h2].pc = "done"
      /\ hs[h1].ev.kind = "sticker" /\ hs[h2].ev.kind = "sticker"
      /\ hs[h1].saved /\ hs[h2].saved
      /\ hs[h1].ev.chat = hs[h2].ev.chat
      /\ hs[h1].ev.reply = hs[h2].ev.reply )
    => /\ Exists(hs[h1].ev.chat, hs[h1].ev.reply)
       /\ ScoreOf(hs[h1].ev.chat, hs[h1].ev.reply)
            = ledger[<<hs[h1].ev.chat, hs[h1].ev.reply>>]

Isolated(h) == \A g \in Handlers \ {h} : hs[g].pc \in {"idle", "done"}

\* C3: in isolation, the save of an accepted sticker signal with delta D on
\* a target whose record holds S (0 when there is none) leaves exactly one
\* record holding S + D, and the confirmation reports S and S + D
C3_ExactDelta ==
  [][\A h \in Handlers :
       LET st == hs[h]
           c == st.ev.chat
           u == st.ev.reply
           S == ScoreOr0(store, c, u)
           D == STICKER_CREDITS[st.ev.key]
       IN /\ ( /\ st.ev.kind = "sticker" /\ Isolated(h)
               /\ st.pc = "save" /\ hs'[h].saved )
             => /\ st.oldScore = S
                /\ Len(store'[<<c, c, u>>]) = 1
                /\ store'[<<c, c, u>>][1] = S + D
          /\ ( /\ st.ev.kind = "sticker" /\ Isolated(h)
               /\ st.pc = "count" /\ hs'[h].pc = "send" )
             \* the record holds S + D by now
             => /\ hs'[h].msg.text = TxtChanged
                /\ hs'[h].msg.old = S - D
                /\ hs'[h].msg.new = S
     ]_vars

\* a confirmation of a change from a non-zero score has been sent
C3_Witness ==
  \E h \in Handlers :
    /\ hs[h].pc = "done" /\ hs[h].ev.kind = "sticker" /\ hs[h].saved
    /\ Len(hs[h].sent) = 1 /\ hs[h].sent[1].ok
    /\ hs[h].sent[1].text = TxtChanged
    /\ hs[h].sent[1].old = 20 /\ hs[h].sent[1].new = 40
    /\ ScoreOf(hs[h].ev.chat, hs[h].ev.reply) = 40

\* C4: no step of a handler whose event was denied changes the store
C4_DenialKeepsStore ==
  [][\A h \in Handlers :
       (hs'[h] # hs[h] /\ hs'[h].denial \in Denials) => store' = store
    ]_vars

\* a denied signal has completed while the store holds a record
C4_Witness ==
  \E h \in Handlers :
    /\ hs[h].pc = "done" /\ hs[h].denial = "BotTarget"
    /\ Len(hs[h].sent) = 1
    /\ Exists(hs[h].ev.chat, "u1") /\ ScoreOf(hs[h].ev.chat, "u1") = -20

\* C5: a sticker or reaction signal with a delta whose sender is its target
\* is denied, and its handler never reads or writes the target's record
C5_SelfVoteDenied ==
  \A h \in Handlers :
    ( /\ hs[h].ev.kind \in Signals
      /\ hs[h].ev.key \in {"up", "down"}
      /\ hs[h].ev.from = hs[h].ev.reply )
    => /\ hs[h].denial \in {"SenderExcluded", "SelfVote"}
       /\ hs[h].ev.from # "777000" => hs[h].denial = "SelfVote"
       /\ ~hs[h].saved
       /\ hs[h].pc \notin StoragePcs

\* a user with score 20 sent a -20 sticker in reply to themselves and was
\* told so; the score is still 20
C5_Witness ==
  \E h \in Handlers :
    /\ hs[h].pc = "done" /\ hs[h].ev.kind = "sticker"
    /\ hs[h].ev.key = "down" /\ hs[h].ev.from = hs[h].ev.reply
    /\ hs[h].denial = "SelfVote"
    /\ Len(hs[h].sent) = 1 /\ hs[h].sent[1].text = TxtSelfVote
    /\ Exists(hs[h].ev.chat, hs[h].ev.reply)
    /\ ScoreOf(hs[h].ev.chat, hs[h].ev.reply) = 20

\* C6: a signal sent by the excluded sender 777000 never creates a record
\* and never changes a score
C6_ExcludedSenderNoEffect ==
  \A h \in Handlers :
    (hs[h].ev.kind \in Signals /\ hs[h].ev.from = "777000")
    => ~hs[h].saved

\* C7: a signal whose target is a bot is denied and its handler never reads
\* or writes a record; with a distinct, non-excluded sender the denial is
\* BotTarget
C7_BotTargetDenied ==
  \A h \in Handlers :
    ( /\ hs[h].ev.kind \in Signals
      /\ hs[h].ev.reply # "none" /\ IsBot(hs[h].ev.reply)
      /\ hs[h].ev.kind = "sticker" => hs[h].ev.key \in {"up", "down"} )
    => /\ hs[h].denial \in {"SenderExcluded", "SelfVote", "BotTarget"}
       /\ (hs[h].ev.from # hs[h].ev.reply /\ hs[h].ev.from # "777000")
            => hs[h].denial = "BotTarget"
       /\ ~hs[h].saved
       /\ hs[h].pc \notin StoragePcs

\* a regular user's credit sticker in reply to a bot was denied
C7_Witness ==
  \E h \in Handlers :
    /\ hs[h].pc = "done" /\ hs[h].ev.kind = "sticker"
    /\ hs[h].ev.from = "u1" /\ hs[h].ev.reply = "bot"
    /\ hs[h].denial = "BotTarget"
    /\ Len(hs[h].sent) = 1 /\ hs[h].sent[1].text = TxtBotTarget
    /\ \A u \in Users : ~Exists(hs[h].ev.chat, u)

\* the failing predicates of an event, and the earliest of them in the
\* order NoTarget, SenderExcluded, SelfVote, BotTarget
Failing(ev) ==
  {d \in Denials :
     \/ d = "NoTarget" /\ ev.reply = "none"
     \/ d = "SenderExcluded" /\ ev.from = "777000"
     \/ d = "SelfVote" /\ ev.from = ev.reply
     \/ d = "BotTarget" /\ ev.reply = "bot"}
Earliest(F) ==
  IF "NoTarget" \in F THEN "NoTarget"
  ELSE IF "SenderExcluded" \in F THEN "SenderExcluded"
  ELSE IF "SelfVote" \in F THEN "SelfVote"
  ELSE "BotTarget"

\* C8: a credit sticker event on which several eligibility predicates fail
\* is denied with the earliest failing one
C8_EarliestDenial ==
  \A h \in Handlers :
    ( /\ hs[h].ev.kind = "sticker" /\ hs[h].ev.key \in {"up", "down"}
      /\ Cardinality(Failing(hs[h].ev)) >= 2 )
    => hs[h].denial = Earliest(Failing(hs[h].ev))

ApologyTexts == {TxtStickerError, TxtReactionError, TxtStartError}
OwnText(d) ==
  IF d = "NoTarget" THEN TxtNoTarget
  ELSE IF d = "SelfVote" THEN TxtSelfVote
  ELSE IF d = "BotTarget" THEN TxtBotTarget
  ELSE "(the fixed text of SenderExcluded)"

C10_UnknownKeyIgnored ==
  \A h \in Handlers :
    (hs[h].ev.kind \in Signals /\ hs[h].ev.key = "other")
    => /\ hs[h].sent = <<>>
       /\ ~hs[h].saved
       /\ hs[h].pc \notin {"send", "apology"}

\* C11: a sticker handler that ends with the generic apology, having sent
\* nothing else (the failure was a storage call's), has written nothing:
\* the target's stored score is what it was before the event
C11_FailureLeavesNoEffect ==
  \A h \in Handlers :
    ( /\ hs[h].ev.kind = "sticker"
      /\ hs[h].pc = "done"
      /\ Len(hs[h].sent) = 1 /\ hs[h].sent[1].text = TxtStickerError )
    => ~hs[h].saved

\* C12: no exception leaves a handler: a handler's promise is never rejected
C12_ExceptionsContained ==
  \A h \in Handlers : ~hs[h].rejected


\* C13: no step of a /score handler changes the store, and the reply it
\* issues is the not-registered text when the caller has no record in the
\* chat, else the score text carrying the stored score
C13_ScoreReadsOnly ==
  [][\A h \in Handlers :
       LET c == hs'[h].ev.chat
           u == hs'[h].ev.from
       IN (hs'[h].ev.kind = "score" /\ hs'[h] # hs[h])
          => /\ store' = store
             /\ ~hs'[h].saved
             /\ (hs[h].pc = "find" /\ hs'[h].pc = "send")
                  => IF ~Exists(c, u)
                       THEN hs'[h].msg = Plain(TxtNotRegistered)
                     ELSE /\ hs'[h].msg.text = TxtYourScore
                          /\ hs'[h].msg.new = ScoreOf(c, u)
    ]_vars

\* an unregistered caller was told so while another user of the chat holds
\* a score, and the caller still has no record
C13_Witness ==
  \E h \in Handlers :
    /\ hs[h].pc = "done" /\ hs[h].ev.kind = "score"
    /\ Len(hs[h].sent) = 1 /\ hs[h].sent[1].ok
    /\ hs[h].sent[1].text = TxtNotRegistered
    /\ ~Exists(hs[h].ev.chat, hs[h].ev.from)
    /\ \E u \in Users : Exists(hs[h].ev.chat, u) /\ ScoreOf(hs[h].ev.chat, u) = 20


\* C14: the only step of a /start handler that changes the store is its
\* save, which creates the caller's record holding 0 where there was none;
\* no /start step changes the score of any pair (an absent record counting
\* as 0) or the sum of the applied deltas, so the score stays what the
\* signals produced; and the reply issued is the welcome with score 0 after
\* a creation, else the greeting carrying the stored score
C14_StartCreatesAtZero ==
  [][\A h \in Handlers :
       LET st == hs[h]
           c == hs'[h].ev.chat
           u == hs'[h].ev.from
       IN (hs'[h].ev.kind = "start" /\ hs'[h] # st)
          => /\ \A x \in Users : ScoreOr0(store', c, x) = ScoreOr0(store, c, x)
             /\ ledger' = ledger
             /\ IF st.pc = "save" /\ hs'[h].saved
                  THEN /\ ~Exists(c, u)
                       /\ store' = [store EXCEPT ![<<c, c, u>>] = <<0>>]
                       /\ hs'[h].msg = Plain(TxtWelcome)
                ELSE store' = store
             /\ (st.pc = "find" /\ hs'[h].pc = "send")
                  => /\ Exists(c, u)
                     /\ hs'[h].msg.text = TxtHeyFren
                     /\ hs'[h].msg.new = ScoreOf(c, u)
             /\ (st.pc = "find" /\ hs'[h].pc = "save") => ~Exists(c, u)
    ]_vars

\* a caller whose record holds 40 was greeted with 40 and still holds 40
C14_Witness ==
  \E h \in Handlers :
    /\ hs[h].pc = "done" /\ hs[h].ev.kind = "start"
    /\ Len(hs[h].sent) = 1 /\ hs[h].sent[1].ok
    /\ hs[h].sent[1].text = TxtHeyFren /\ hs[h].sent[1].new = 40
    /\ ScoreOf(hs[h].ev.chat, hs[h].ev.from) = 40
    /\ ledger[<<hs[h].ev.chat, hs[h].ev.from>>] = 40


\* the other users of chat c whose record holds more than the record of u
Above(c, u) ==
  {x \in Users \ {u} : Exists(c, x) /\ ScoreOf(c, x) > ScoreOf(c, u)}

\* C15: when the count of an accepted sticker signal settles, the target's
\* new score is already stored and the position computed, and used for the
\* comment of the confirmation, is 1 + the number of other records of the
\* chat holding strictly more; it is 1 when every other record holds
\* strictly less
C15_RankAfterPersist ==
  [][\A h \in Handlers :
       LET c == hs[h].ev.chat
           u == hs[h].ev.reply
       IN ( /\ hs[h].ev.kind = "sticker" /\ Isolated(h)
            /\ hs[h].pc = "count" /\ hs'[h].pc = "send" )
          => /\ Exists(c, u)
             /\ ScoreOf(c, u) = hs[h].user.creditScore
             /\ hs'[h].msg.new = ScoreOf(c, u)
             /\ hs'[h].position = 1 + Cardinality(Above(c, u))
             /\ hs'[h].msg.comment = getFunComment(ScoreOf(c, u),
                                                   hs'[h].position)
             /\ (\A x \in Users \ {u} : Exists(c, x) => ScoreOf(c, x) < ScoreOf(c, u))
                  => hs'[h].position = 1
    ]_vars

\* a target was ranked third: two other records of the chat hold more
C15_Witness ==
  \E h \in Handlers :
    /\ hs[h].pc = "send" /\ hs[h].ev.kind = "sticker" /\ hs[h].saved
    /\ hs[h].position = 3
    /\ Cardinality(Above(hs[h].ev.chat, hs[h].ev.reply)) = 2
    /\ hs[h].msg.comment = "Still considered a model citizen!"

\* a target was ranked first among three records with distinct scores
C15_WitnessTop ==
  \E h \in Handlers :
    /\ hs[h].pc = "send" /\ hs[h].ev.kind = "sticker" /\ hs[h].saved
    /\ hs[h].position = 1
    /\ Cardinality({x \in Users : Exists(hs[h].ev.chat, x)}) = 3
    /\ Cardinality({ScoreOf(hs[h].ev.chat, x) :
                      x \in {y \in Users : Exists(hs[h].ev.chat, y)}}) = 3


\* the pair (c, u) has no document and no applied delta, or one document,
\* holding the sum of the deltas applied to the pair
Consistent(st, led, c, u) ==
  LET docs == {<<l, i>> \in Locs \X (1..MaxDocs + 1) : i <= Len(st[<<l, c, u>>])}
  IN \/ docs = {} /\ led[<<c, u>>] = 0
     \/ /\ Cardinality(docs) = 1
        /\ \E l \in Locs : st[<<l, c, u>>] = <<led[<<c, u>>]>>

C16_Witness ==
  \E h1 \in Handlers, h2 \in Handlers :
    /\ hs[h1].saved /\ hs[h2].saved
    /\ hs[h1].pc \notin {"idle", "done"} /\ hs[h2].pc \notin {"idle", "done"}
    /\ hs[h1].ev.chat = "c1" /\ hs[h2].ev.chat = "c2"
    /\ hs[h1].ev.reply = hs[h2].ev.reply
    /\ Exists("c1", hs[h1].ev.reply) /\ Exists("c2", hs[h1].ev.reply)
    /\ ScoreOf("c1", hs[h1].ev.reply) # ScoreOf("c2", hs[h1].ev.reply)


\* the members holding a record in chat c
Registered(c) == {u \in Members : Exists(c, u)}

\* C17: the reply a /leaderboard handler issues is the no-scores text,
\* without any line, when the chat has no record, and is the leaderboard
\* with at least one line, never the no-scores text, when it has one
C17_EmptyLeaderboard ==
  [][\A h \in Handlers :
       LET c == hs[h].ev.chat
       IN ( /\ hs[h].ev.kind = "leaderboard"
            /\ hs[h].pc = "query" /\ hs'[h].pc = "send" )
          => IF Registered(c) = {}
               THEN hs'[h].msg = Plain(TxtNoScores)
             ELSE /\ hs'[h].msg.text = TxtLeaderboard
                  /\ hs'[h].msg.text # TxtNoScores
                  /\ Len(hs'[h].msg.board) >= 1
    ]_vars

\* /leaderboard in a chat without records was answered with the no-scores
\* text and nothing else
C17_Witness ==
  \E h \in Handlers :
    /\ hs[h].pc = "done" /\ hs[h].ev.kind = "leaderboard"
    /\ Registered(hs[h].ev.chat) = {}
    /\ Len(hs[h].sent) = 1 /\ hs[h].sent[1].ok
    /\ hs[h].sent[1].text = TxtNoScores /\ hs[h].sent[1].board = <<>>

\* C18: the leaderboard issued for a chat of n >= 1 records has
\* min(n, 10) lines, each the record of a different member of the chat
\* with its stored score, in non-increasing score order; no record left out
\* holds more than a listed one; lines 1 to 3 carry the medals and line
\* k > 3 the ordinal k
C18_TopTen ==
  [][\A h \in Handlers :
       LET c == hs[h].ev.chat
           n == Cardinality(Registered(c))
           B == hs'[h].msg.board
           listed == {B[i].user : i \in 1..Len(B)}
       IN ( /\ hs[h].ev.kind = "leaderboard"
            /\ hs[h].pc = "query" /\ hs'[h].pc = "send"
            /\ n >= 1 )
          => /\ Len(B) = IF n < 10 THEN n ELSE 10
             /\ Cardinality(listed) = Len(B)
             /\ \A i \in 1..Len(B) :
                  /\ B[i].user \in Registered(c)
                  /\ B[i].creditScore = ScoreOf(c, B[i].user)
             /\ \A i \in 1..(Len(B) - 1) : B[i].creditScore >= B[i + 1].creditScore
             /\ \A u \in Registered(c) \ listed :
                  \A i \in 1..Len(B) : ScoreOf(c, u) <= B[i].creditScore
             /\ B[1].medal = "first-place medal"
             /\ Len(B) >= 2 => B[2].medal = "second-place medal"
             /\ Len(B) >= 3 => B[3].medal = "third-place medal"
             /\ \A k \in 4..Len(B) : B[k].medal = Ordinals[k]
    ]_vars

\* a leaderboard of ten lines was sent for a chat of twelve records: the
\* two left out hold 0, the tenth line carries "10." and the last
\* registered member leads it
C18_Witness ==
  \E h \in Handlers :
    /\ hs[h].pc = "done" /\ hs[h].ev.kind = "leaderboard"
    /\ Cardinality(Registered(hs[h].ev.chat)) = 12
    /\ Len(hs[h].sent) = 1 /\ hs[h].sent[1].ok
    /\ Len(hs[h].sent[1].board) = 10
    /\ hs[h].sent[1].board[1].user = "m9"
    /\ hs[h].sent[1].board[1].creditScore = 20
    /\ hs[h].sent[1].board[10].creditScore = 0
    /\ hs[h].sent[1].board[10].medal = "10."
    /\ hs[h].sent[1].board[4].medal = "4."


\* handler h completes the save of an accepted signal on the documents k
Applies(h, k) ==
  /\ hs[h].pc = "save" /\ hs'[h].saved
  /\ hs[h].ev.kind \in Signals /\ hs[h].denial = "None"
  /\ EventDelta(hs[h].ev) # 0
  /\ k[2] = hs[h].ev.chat /\ k[3] = hs[h].ev.reply

\* C19: no step removes a document; a step that changes a document's
\* score is the save of an accepted signal and adds the signal's delta; a
\* step that adds a document is the save of /start (score 0) or of an
\* accepted signal (score 0 + delta)
C19_RecordsPersist ==
  [][\A k \in Keys :
       /\ Len(store'[k]) >= Len(store[k])
       /\ \A i \in 1..Len(store[k]) :
            store'[k][i] # store[k][i]
            => \E h \in Handlers :
                 /\ Applies(h, k)
                 /\ store'[k][i] = store[k][i] + EventDelta(hs[h].ev)
       /\ Len(store'[k]) > Len(store[k])
            => /\ Len(store'[k]) = Len(store[k]) + 1
               /\ \E h \in Handlers :
                    \/ /\ hs[h].ev.kind = "start"
                       /\ hs[h].pc = "save" /\ hs'[h].saved
                       /\ k[2] = hs[h].ev.chat /\ k[3] = hs[h].ev.from
                       /\ store'[k][Len(store'[k])] = 0
                    \/ /\ Applies(h, k)
                       /\ store'[k][Len(store'[k])] = EventDelta(hs[h].ev)
    ]_vars

\* a record created by /start, voted to 20 and back to 0, is still there
\* after a later signal on it failed
C19_Witness ==
  \E h \in Handlers :
    /\ hs[h].pc = "done" /\ hs[h].ev.kind = "sticker" /\ ~hs[h].saved
    /\ Len(hs[h].sent) = 1 /\ hs[h].sent[1].text = TxtStickerError
    /\ Exists(hs[h].ev.chat, hs[h].ev.reply)
    /\ ScoreOf(hs[h].ev.chat, hs[h].ev.reply) = 0
    /\ Cardinality(Registered(hs[h].ev.chat)) = 3


\* C20: while the connection is down an attempt is in flight or a retry
\* timer is armed; after an attempt failed a new attempt is eventually
\* started; and when the connection stays down for ever, attempts are
\* started again and again
C20_RetryForever ==
  /\ [](readyState = 0 => chains.attempts + chains.timers > 0)
  /\ (chains.owed ~> ~chains.owed)
  /\ (<>[](readyState = 0)) => ([]<>chains.tick /\ []<>(~chains.tick))

\* two attempts have been started and none is in flight: the second one
\* failed and its retry timer is armed
C20_Witness ==
  /\ readyState = 0
  /\ ~chains.tick /\ chains.owed
  /\ chains.attempts = 0 /\ chains.timers = 1


\* the bands of C21, high to low
Bands(score) ==
  {b \in {"champion", "gold", "target", "warning", "struggling"} :
     \/ b = "champion" /\ score > 100
     \/ b = "gold" /\ 50 < score /\ score <= 100
     \/ b = "target" /\ 0 < score /\ score <= 50
     \/ b = "warning" /\ score < -50
     \/ b = "struggling" /\ -50 <= score /\ score <= 0}

\* C21: every score lies in exactly one of the five bands, and the emoji
\* of a formatted reply is the one of the band of its score
C21_EmojiBands ==
  \A h \in Handlers :
    hs[h].pc = "formatted"
    => /\ Cardinality(Bands(hs[h].user.creditScore)) = 1
       /\ hs[h].msg.emoji \in Bands(hs[h].user.creditScore)

\* the score -50 was formatted as struggling
C21_Witness ==
  \E h \in Handlers :
    /\ hs[h].pc = "formatted" /\ hs[h].user.creditScore = -50
    /\ hs[h].msg.emoji = "struggling"


RankComments == {"The most trusted citizen in the group!",
                 "Almost worthy of the highest privileges!",
                 "Still considered a model citizen!"}

\* C22: a reply formatted for position 1, 2 or 3 carries that position's
\* fixed comment; for a later position, the scores that get the same
\* comment are exactly the scores that get the same emoji
C22_FlavorFollowsBands ==
  \A h \in Handlers :
    hs[h].pc = "formatted"
    => IF hs[h].position <= 3
         THEN /\ hs[h].msg.comment \in RankComments
              /\ \A t \in (-MaxScore)..MaxScore :
                   getFunComment(t, hs[h].position) = hs[h].msg.comment
       ELSE \A t \in (-MaxScore)..MaxScore :
              (getScoreEmoji(t) = hs[h].msg.emoji)
              <=> (getFunComment(t, hs[h].position) = hs[h].msg.comment)


(* C23: retryCount stays within 0..5.  A failed start whose error reports
   the conflicting getUpdates request arms exactly one timer for
   startPolling and counts one retry while retryCount < 5, and exits the
   process when retryCount = 5; a successful start sets retryCount to 0.
   The process thus exits with code 1 only at the sixth attempt, the five
   retries used up. *)
C23_RetryBudget ==
  /\ [](poll.retryCount \in 0..5)
  /\ [][ /\ (poll'.fails = poll.fails + 1 /\ poll'.err = "conflict") =>
              IF poll.retryCount < 5
                THEN /\ poll'.retryCount = poll.retryCount + 1
                     /\ poll'.timers = poll.timers + 1
                     /\ poll'.exit = "alive"
              ELSE /\ poll'.timers = poll.timers
                   /\ poll'.exit = "exit1"
         /\ (poll'.starting = poll.starting - 1 /\ poll'.fails = poll.fails) =>
              poll'.retryCount = 0
         /\ (poll.exit = "alive" /\ poll'.exit = "exit1") =>
              /\ poll.retryCount = 5
              /\ poll'.calls = 6
              /\ poll'.fails = 6
     ]_vars

\* the sixth attempt failed on the conflict as the five before it: exit(1)
C23_Witness ==
  /\ poll.exit = "exit1"
  /\ poll.retryCount = 5
  /\ poll.calls = 6
  /\ poll.signal = "none"

(* C24: at most one execution of startPolling is between its isPolling
   check and its completion.  A call made while isPolling is true starts
   nothing; an execution passes the check only with isPolling false and
   sets it; isPolling turns false only in the catch block of a failed start
   or in the SIGINT/SIGTERM handler; once an execution has completed a
   successful start no later execution passes the check. *)
C24_OneStartAtATime ==
  /\ [](poll.stopping + poll.starting <= 1)
  /\ [][ /\ (poll'.timers = poll.timers - 1 /\ poll.isPolling) =>
              /\ poll'.calls = poll.calls
              /\ poll'.stopping = poll.stopping
              /\ poll'.starting = poll.starting
              /\ poll'.started = poll.started
         /\ (poll'.calls = poll.calls + 1) =>
              (~poll.isPolling /\ poll'.isPolling)
         /\ (poll.isPolling /\ ~poll'.isPolling) =>
              \/ poll'.fails = poll.fails + 1
              \/ (poll.signal = "none" /\ poll'.signal = "stopping")
         /\ (poll.calls > poll.fails /\ poll.stopping + poll.starting = 0) =>
              poll'.calls = poll.calls
     ]_vars

\* the third execution, started by a timer, waits on bot.startPolling()
C24_Witness ==
  /\ poll.isPolling
  /\ poll.starting = 1
  /\ poll.calls = 3
  /\ poll.timers = 0

\* the process is alive, the bot does not poll, no execution of
\* startPolling is in flight and no timer is armed for one
AtRest ==
  /\ Alive
  /\ ~poll.started
  /\ poll.stopping + poll.starting = 0
  /\ poll.timers = 0

(* C25: no signal having been delivered, the process is never at rest with
   polling not running, no start in flight and no retry scheduled: from the
   initial call, the awaited calls settling and the timers firing, polling
   gets started or the process exits, whatever the error of a failed
   start. *)
C25_NeverAtRest == (poll.signal = "none") => ~AtRest

\* the reconnect activity: the connection attempts in flight (those of
\* connectWithRetry() in revision 1, those awaited by getChatDatabase in
\* revision 2) and the chains pending on a timer or on a later attempt
ReconnectChains ==
  chains.attempts + chains.timers
    + Cardinality(retry) + Cardinality({h \in Handlers : hs[h].pc = "connect"})

(* C26: at most one storage reconnect chain is active: the connection
   attempts in flight and the pending retry timers never number more than
   one. *)
C26_OneReconnectChain == ReconnectChains <= 1

\* a known credit sticker from a sender who is not barred
Accepted(ev) ==
  ev.kind = "sticker" /\ IsCreditSticker(ev.key) /\ ev.from # "777000"

\* the messages of handler h that went out
Delivered(h) == {i \in 1..Len(hs[h].sent) : hs[h].sent[i].ok}

IsConfirmation(m) == m.text = TxtChanged
IsDenial(m) == m.text \in {TxtNoTarget, TxtSelfVote, TxtBotTarget}
IsOutcome(m) == IsConfirmation(m) \/ IsDenial(m) \/ m.text = TxtStickerError

\* every handler that took an event reaches its end
RunsToEnd == \A h \in Handlers : (hs[h].pc # "idle") ~> (hs[h].pc = "done")

\* a confirmation goes out only after the save succeeded, and no handler
\* attempts both a denial and a confirmation
ConfirmsAfterSave(h) ==
  /\ \A i \in Delivered(h) : IsConfirmation(hs[h].sent[i]) => hs[h].saved
  /\ ~\E i, j \in 1..Len(hs[h].sent) :
        IsDenial(hs[h].sent[i]) /\ IsConfirmation(hs[h].sent[j])

(* C27 as stated: every known credit sticker event from a non-excluded
   sender runs to its end with exactly one message delivered, which is the
   confirmation, a denial or the generic apology; a confirmation goes out
   only after the score was persisted and never together with a denial. *)
C27_OneOutcome ==
  /\ RunsToEnd
  /\ [](\A h \in Handlers :
          (hs[h].pc = "done" /\ Accepted(hs[h].ev)) =>
            /\ Cardinality(Delivered(h)) = 1
            /\ \A i \in Delivered(h) : IsOutcome(hs[h].sent[i])
            /\ ConfirmsAfterSave(h))

(* C27 amended: every known credit sticker event from a non-excluded
   sender runs to its end; exactly one message, the confirmation, a denial
   or the generic apology, was delivered, unless the send of the apology
   itself failed, and then none was; a confirmation goes out only after
   the score was persisted and never together with a denial. *)
C27_OneOutcomeUnlessApologyFails ==
  /\ RunsToEnd
  /\ [](\A h \in Handlers :
          (hs[h].pc = "done" /\ Accepted(hs[h].ev)) =>
            /\ Cardinality(Delivered(h)) = IF hs[h].rejected THEN 0 ELSE 1
            /\ \A i \in Delivered(h) : IsOutcome(hs[h].sent[i])
            /\ ConfirmsAfterSave(h))

\* the score was saved, the confirmation failed to go out and so did the
\* apology
C27_Witness ==
  \E h \in Handlers :
    /\ hs[h].pc = "done" /\ Accepted(hs[h].ev)
    /\ hs[h].saved /\ hs[h].rejected
    /\ Len(hs[h].sent) = 2
    /\ Delivered(h) = {}

TypeOK ==
  /\ \A k \in Keys : \A i \in 1..Len(store[k]) : Abs(store[k][i]) <= ScoreCap
  /\ \A h \in Handlers : hs[h].pc \in {"idle", "fetch", "find", "query", "save", "format", "formatted", "count", "send", "apology", "done",
                                    "disconnect", "connect", "drop", "index"}

====
